---- MODULE Spec2Model ----
(***************************************************************************)
(* example_backend/llm_config.py: the process-wide configuration store of  *)
(* the agent (the system prompt and the model parameters) and its five     *)
(* operations.                                                             *)
(*                                                                         *)
(* Python values are written as the text of their literals ("0.7",         *)
(* "2048", "gpt-4"): the module never computes with a value, it only       *)
(* stores and returns it.  A dict is a function from its keys to its       *)
(* values; dict objects live in objs, so that two references to the same   *)
(* dict are distinguishable from two equal dicts.                          *)
(*                                                                         *)
(* Spec     : the calls of one caller, each run to completion; between     *)
(*            calls the caller may edit the record get_llm_config gave it. *)
(* SpecConc : update_llm_config and get_llm_config calls of NumCallers     *)
(*            threads, interleaved between the steps of the interpreter    *)
(*            (one loop iteration, one dict merge).  No operation removes  *)
(*            a key of llm_config, so the membership test and the store    *)
(*            of one iteration are taken as one step.                      *)
(***************************************************************************)
EXTENDS Integers, Sequences, FiniteSets, TLC

\* ------------------------------------------------------------------ bounds
MaxUpdates == 2      \* most items in one config_updates mapping
MaxEdits == 1        \* most edits a caller makes to one returned record
NumCallers == 2      \* threads of SpecConc

\* ------------------------------------------------------- program constants
DEFAULT_SYSTEM_PROMPT == "You are a compassionate and professional healthcare AI assistant conducting patient follow-up calls. Your primary goal is to ensure patient well-being and treatment adherence.\n\nCore Responsibilities:\n- Build rapport with warm, personalized greetings\n- Assess current health status and symptom progression\n- Verify medication adherence and address any side effects\n- Schedule or confirm upcoming appointments\n- Document patient concerns and questions\n- Provide clear follow-up instructions\n\nCommunication Style:\n- Use empathetic and patient-centered language\n- Listen actively and acknowledge patient concerns\n- Speak clearly and avoid medical jargon\n- Allow patients to express themselves fully\n- Summarize key points for clarity\n\nKey Areas to Cover:\n1. Personal greeting and rapport building\n2. Current symptom assessment\n3. Medication review and adherence check\n4. Appointment scheduling or confirmation\n5. Address patient questions and concerns\n6. Provide clear next steps and follow-up plan\n\nRemember to maintain HIPAA compliance and patient confidentiality throughout the conversation."

\* Faulty variant: another default temperature.
DefaultLlmConfigWrong ==
    ("temperature" :> "1.0") @@ ("max_tokens" :> "2048")
        @@ ("top_p" :> "0.9") @@ ("model" :> "gpt-4")

DefaultLlmConfig ==
    ("temperature" :> "0.7") @@ ("max_tokens" :> "2048")
        @@ ("top_p" :> "0.9") @@ ("model" :> "gpt-4")

\* ------------------------------------------------------------------ inputs
Callers == 1..NumCallers
SeqCallers == {1}
LLM_CONFIG == 0                      \* the dict object the global llm_config names
ObjIds == {LLM_CONFIG} \cup Callers  \* and one result object per caller
NoObj == -1
EmptyDict == <<>>

Prompts == {DEFAULT_SYSTEM_PROMPT, "X", ""}
KnownKeys == {"temperature", "max_tokens", "top_p", "model"}
Keys == KnownKeys \cup {"system_prompt", "unknown_key"}
\* The <<key, value>> items callers pass in config_updates.  temperature has two
\* new values, so that a changed value can be changed again; "model" gets a
\* number (values are not type checked).
Items ==
    {<<"temperature", "0.2">>, <<"temperature", "123">>, <<"max_tokens", "123">>,
     <<"top_p", "0.2">>, <<"model", "123">>, <<"system_prompt", "Y">>,
     <<"unknown_key", "123">>}
\* Those of concurrent callers: two parameters and an unknown key, two values each.
ConcItems == {"temperature", "max_tokens", "unknown_key"} \X {"0.2", "123"}

DistinctKeys(s) == \A i, j \in 1..Len(s) : i # j => s[i][1] # s[j][1]
ItemSeqs(its) ==
    UNION {{s \in [1..n -> its] : DistinctKeys(s)} : n \in 0..MaxUpdates}
Updates == ItemSeqs(Items)          \* config_updates.items(), in the dict's order
ConcUpdates == ItemSeqs(ConcItems)
KeysOf(s) == {s[i][1] : i \in 1..Len(s)}
ValueOf(s, k) == s[CHOOSE i \in 1..Len(s) : s[i][1] = k][2]

\* ----------------------------------------------------------- Python values
PyNone == [kind |-> "NoneType", val |-> "None"]
PyTrue == [kind |-> "bool", val |-> "True"]
PyFalse == [kind |-> "bool", val |-> "False"]
PyStr(s) == [kind |-> "str", val |-> s]
PyDictRef == [kind |-> "dict", val |-> "<dict>"]   \* the object itself is held[t]

\* One call of a caller: the operation, its arguments, what it returned.
Call(op, p, u, r) == [op |-> op, new_prompt |-> p, config_updates |-> u, ret |-> r]
NoCall == Call("none", "", <<>>, PyNone)

\* ------------------------------------------------------------------- state
VARIABLES
    current_system_prompt,  \* the global of that name
    objs,                   \* dict objects: objs[LLM_CONFIG] is the global llm_config
    held,                   \* held[t]: the dict get_llm_config returned to caller t
    pc,                     \* pc[t]: where caller t is inside a call
    items,                  \* items[t]: what is left of config_updates.items()
    pre,                    \* pre[t]: llm_config as the running update_llm_config found it
    last_call,              \* last_call[t]: caller t's latest call
    edits,                  \* edits[t]: edits made to the record caller t holds
    last_set,               \* <<X>> when the latest prompt write was set_system_prompt(X)
    mutated,                \* some mutating operation has been called
    observed                \* observed[t]: the callers whose running update_llm_config
                            \* had applied some but not all of its items when the
                            \* record caller t holds was built

vars == <<current_system_prompt, objs, held, pc, items, pre, last_call, edits,
          last_set, mutated, observed>>

llm_config == objs[LLM_CONFIG]

Init ==
    /\ current_system_prompt = DEFAULT_SYSTEM_PROMPT
    /\ objs = [o \in ObjIds |-> IF o = LLM_CONFIG THEN DefaultLlmConfig ELSE EmptyDict]
    /\ held = [t \in Callers |-> NoObj]
    /\ pc = [t \in Callers |-> "idle"]
    /\ items = [t \in Callers |-> <<>>]
    /\ pre = [t \in Callers |-> EmptyDict]
    /\ last_call = [t \in Callers |-> NoCall]
    /\ edits = [t \in Callers |-> 0]
    /\ last_set = <<>>
    /\ mutated = FALSE
    /\ observed = [t \in Callers |-> {}]

\* ----------------------------------------------------------------- helpers
\* d[key] = value on a dict: the key is added when it is absent.
SetItem(d, key, value) == [k \in DOMAIN d \cup {key} |-> IF k = key THEN value ELSE d[k]]
\* del d[key]
DelItem(d, key) == [k \in DOMAIN d \ {key} |-> d[k]]

\* Faulty variant: no membership test, as llm_config.update(config_updates) would do.
ApplyItemNoCheck(cfg, item) == SetItem(cfg, item[1], item[2])

\* The body of the loop of update_llm_config, for one item <<key, value>>.
ApplyItem(cfg, item) ==
    IF item[1] \in DOMAIN cfg THEN SetItem(cfg, item[1], item[2]) ELSE cfg

\* Faulty variant: the whole mapping is applied in one step.
RECURSIVE ApplyAll(_, _)
ApplyAll(cfg, its) ==
    IF its = <<>> THEN cfg
    ELSE ApplyAll(IF its[1][1] \in DOMAIN cfg THEN SetItem(cfg, its[1][1], its[1][2]) ELSE cfg,
                  Tail(its))
LoopIterationWhole(cfg, its) == <<ApplyAll(cfg, its), <<>>>>

\* One iteration of the loop: the first item is applied, the rest remains.
LoopIteration(cfg, its) == <<ApplyItem(cfg, Head(its)), Tail(its)>>

\* Faulty variant: return True indented into the loop, which ends after its first item.
ApplyItemsFirstOnly(cfg, its) ==
    IF its = <<>> THEN cfg ELSE LoopIteration(cfg, its)[1]

\* The whole loop over config_updates.items().
RECURSIVE ApplyItems(_, _)
ApplyItems(cfg, its) ==
    IF its = <<>> THEN cfg
    ELSE LET r == LoopIteration(cfg, its) IN ApplyItems(r[1], r[2])

\* Faulty variant: the default prompt in place of the current one.
MergedConfigDefaultPrompt(prompt, cfg) ==
    [k \in DOMAIN cfg \cup {"system_prompt"} |->
        IF k \in DOMAIN cfg THEN cfg[k] ELSE DEFAULT_SYSTEM_PROMPT]

\* {"system_prompt": prompt, **cfg}: the entries of cfg come last and win.
MergedConfig(prompt, cfg) ==
    [k \in DOMAIN cfg \cup {"system_prompt"} |-> IF k \in DOMAIN cfg THEN cfg[k] ELSE prompt]

\* Faulty variant: llm_config itself, with the prompt stored into it, is returned.
NewDictAliased(t) == LLM_CONFIG

\* The dict display of get_llm_config builds a new object on every call.
NewDict(t) == t

\* A caller keeps a returned record until its next call: the record is dropped.
Dropped(t) == [objs EXCEPT ![t] = EmptyDict]

Entered(t, c) ==
    /\ pc[t] = "idle"
    /\ last_call' = [last_call EXCEPT ![t] = c]
    /\ edits' = [edits EXCEPT ![t] = 0]
    /\ observed' = [observed EXCEPT ![t] = {}]

\* ------------------------------------------------- operations, run whole
get_system_prompt(t) ==
    /\ Entered(t, Call("get_system_prompt", "", <<>>, PyStr(current_system_prompt)))
    /\ objs' = Dropped(t)
    /\ held' = [held EXCEPT ![t] = NoObj]
    /\ UNCHANGED <<current_system_prompt, pc, items, pre, last_set, mutated>>

\* Faulty variant: an empty prompt is not stored (if new_prompt: ...).
set_system_prompt_skip_empty(t, new_prompt) ==
    /\ Entered(t, Call("set_system_prompt", new_prompt, <<>>, PyTrue))
    /\ current_system_prompt' =
          IF new_prompt = "" THEN current_system_prompt ELSE new_prompt
    /\ objs' = Dropped(t)
    /\ held' = [held EXCEPT ![t] = NoObj]
    /\ last_set' = <<new_prompt>>
    /\ mutated' = TRUE
    /\ UNCHANGED <<pc, items, pre>>

set_system_prompt(t, new_prompt) ==
    /\ Entered(t, Call("set_system_prompt", new_prompt, <<>>, PyTrue))
    /\ current_system_prompt' = new_prompt
    /\ objs' = Dropped(t)
    /\ held' = [held EXCEPT ![t] = NoObj]
    /\ last_set' = <<new_prompt>>
    /\ mutated' = TRUE
    /\ UNCHANGED <<pc, items, pre>>

get_llm_config(t) ==
    /\ Entered(t, Call("get_llm_config", "", <<>>, PyDictRef))
    /\ objs' = [Dropped(t) EXCEPT ![NewDict(t)] =
                    MergedConfig(current_system_prompt, llm_config)]
    /\ held' = [held EXCEPT ![t] = NewDict(t)]
    /\ UNCHANGED <<current_system_prompt, pc, items, pre, last_set, mutated>>

\* Faulty variant: an empty mapping is refused (if not config_updates: return False).
update_llm_config_refuses_empty(t, config_updates) ==
    /\ Entered(t, Call("update_llm_config", "", config_updates,
                       IF config_updates = <<>> THEN PyFalse ELSE PyTrue))
    /\ objs' = [Dropped(t) EXCEPT ![LLM_CONFIG] = ApplyItems(llm_config, config_updates)]
    /\ held' = [held EXCEPT ![t] = NoObj]
    /\ mutated' = TRUE
    /\ UNCHANGED <<current_system_prompt, pc, items, pre, last_set>>

\* Faulty variant: the key "system_prompt" of the mapping is stored as the prompt.
update_llm_config_sets_prompt(t, config_updates) ==
    /\ Entered(t, Call("update_llm_config", "", config_updates, PyTrue))
    /\ objs' = [Dropped(t) EXCEPT ![LLM_CONFIG] = ApplyItems(llm_config, config_updates)]
    /\ held' = [held EXCEPT ![t] = NoObj]
    /\ mutated' = TRUE
    /\ current_system_prompt' =
          IF "system_prompt" \in KeysOf(config_updates)
          THEN ValueOf(config_updates, "system_prompt") ELSE current_system_prompt
    /\ UNCHANGED <<pc, items, pre, last_set>>

update_llm_config(t, config_updates) ==
    /\ Entered(t, Call("update_llm_config", "", config_updates, PyTrue))
    /\ objs' = [Dropped(t) EXCEPT ![LLM_CONFIG] = ApplyItems(llm_config, config_updates)]
    /\ held' = [held EXCEPT ![t] = NoObj]
    /\ mutated' = TRUE
    /\ UNCHANGED <<current_system_prompt, pc, items, pre, last_set>>

\* Faulty variant: the model parameters are reset too.
reset_to_default_all(t) ==
    /\ Entered(t, Call("reset_to_default", "", <<>>, PyTrue))
    /\ current_system_prompt' = DEFAULT_SYSTEM_PROMPT
    /\ objs' = [Dropped(t) EXCEPT ![LLM_CONFIG] = DefaultLlmConfig]
    /\ held' = [held EXCEPT ![t] = NoObj]
    /\ last_set' = <<>>
    /\ mutated' = TRUE
    /\ UNCHANGED <<pc, items, pre>>

reset_to_default(t) ==
    /\ Entered(t, Call("reset_to_default", "", <<>>, PyTrue))
    /\ current_system_prompt' = DEFAULT_SYSTEM_PROMPT
    /\ objs' = Dropped(t)
    /\ held' = [held EXCEPT ![t] = NoObj]
    /\ last_set' = <<>>
    /\ mutated' = TRUE
    /\ UNCHANGED <<pc, items, pre>>

\* ------------------------------- the caller's use of a returned record
Edited(t) ==
    /\ pc[t] = "idle"
    /\ held[t] # NoObj
    /\ edits[t] < MaxEdits
    /\ edits' = [edits EXCEPT ![t] = @ + 1]
    /\ last_call' = [last_call EXCEPT ![t] = Call("caller_edit", "", <<>>, PyNone)]
    /\ UNCHANGED <<current_system_prompt, held, pc, items, pre, last_set, mutated,
                   observed>>

\* record[key] = value: overwrites a key of the record or adds one.
caller_set(t, key, value) ==
    /\ Edited(t)
    /\ objs' = [objs EXCEPT ![held[t]] = SetItem(@, key, value)]

\* del record[key]
caller_del(t, key) ==
    /\ Edited(t)
    /\ key \in DOMAIN objs[held[t]]
    /\ objs' = [objs EXCEPT ![held[t]] = DelItem(@, key)]

Next ==
    \E t \in SeqCallers :
        \/ get_system_prompt(t)
        \/ \E p \in Prompts : set_system_prompt(t, p)
        \/ get_llm_config(t)
        \/ \E u \in Updates : update_llm_config(t, u)
        \/ reset_to_default(t)
        \/ \E it \in Items : caller_set(t, it[1], it[2])
        \/ \E k \in Keys : caller_del(t, k)

Spec == Init /\ [][Next]_vars

\* ------------------------------------- operations, one bytecode at a time
\* Caller w is inside update_llm_config, some but not all items applied.
MidUpdate(w) ==
    /\ pc[w] = "update_loop"
    /\ 0 < Len(items[w])
    /\ Len(items[w]) < Len(last_call[w].config_updates)

\* update_llm_config is entered: the iterator over config_updates.items().
update_llm_config_call(t, config_updates) ==
    /\ Entered(t, Call("update_llm_config", "", config_updates, PyNone))
    /\ pc' = [pc EXCEPT ![t] = "update_loop"]
    /\ items' = [items EXCEPT ![t] = config_updates]
    /\ pre' = [pre EXCEPT ![t] = llm_config]
    /\ objs' = Dropped(t)
    /\ held' = [held EXCEPT ![t] = NoObj]
    /\ mutated' = TRUE
    /\ UNCHANGED <<current_system_prompt, last_set>>

\* One iteration of the loop.
update_llm_config_iter(t) ==
    /\ pc[t] = "update_loop"
    /\ items[t] # <<>>
    /\ LET r == LoopIteration(llm_config, items[t]) IN
        /\ objs' = [objs EXCEPT ![LLM_CONFIG] = r[1]]
        /\ items' = [items EXCEPT ![t] = r[2]]
    /\ UNCHANGED <<current_system_prompt, held, pc, pre, last_call, edits,
                   last_set, mutated, observed>>

\* The iterator is exhausted: return True.
update_llm_config_return(t) ==
    /\ pc[t] = "update_loop"
    /\ items[t] = <<>>
    /\ pc' = [pc EXCEPT ![t] = "idle"]
    /\ last_call' = [last_call EXCEPT ![t].ret = PyTrue]
    /\ pre' = [pre EXCEPT ![t] = EmptyDict]
    /\ observed' = [r \in Callers |-> observed[r] \ {t}]
    /\ UNCHANGED <<current_system_prompt, objs, held, items, edits, last_set, mutated>>

\* get_llm_config is entered: the new dict gets its "system_prompt" entry.
get_llm_config_call(t) ==
    /\ Entered(t, Call("get_llm_config", "", <<>>, PyNone))
    /\ pc' = [pc EXCEPT ![t] = "get_merge"]
    /\ objs' = [Dropped(t) EXCEPT ![NewDict(t)] =
                    SetItem(EmptyDict, "system_prompt", current_system_prompt)]
    /\ held' = [held EXCEPT ![t] = NoObj]
    /\ UNCHANGED <<current_system_prompt, items, pre, last_set, mutated>>

\* **llm_config is merged into the new dict, which is returned.
get_llm_config_merge(t) ==
    /\ pc[t] = "get_merge"
    /\ pc' = [pc EXCEPT ![t] = "idle"]
    /\ objs' = [objs EXCEPT ![NewDict(t)] = MergedConfig(@["system_prompt"], llm_config)]
    /\ held' = [held EXCEPT ![t] = NewDict(t)]
    /\ last_call' = [last_call EXCEPT ![t].ret = PyDictRef]
    /\ observed' = [observed EXCEPT ![t] = {w \in Callers \ {t} : MidUpdate(w)}]
    /\ UNCHANGED <<current_system_prompt, items, pre, edits, last_set, mutated>>

NextConc ==
    \E t \in Callers :
        \/ \E u \in ConcUpdates : update_llm_config_call(t, u)
        \/ update_llm_config_iter(t)
        \/ update_llm_config_return(t)
        \/ get_llm_config_call(t)
        \/ get_llm_config_merge(t)

SpecConc == Init /\ [][NextConc]_vars

\* ================================================================= claims
record(t) == objs[held[t]]
\* The step just taken was caller t's call of op (Spec: one caller, whole calls).
Called(t, op) == last_call'[t].op = op /\ vars' # vars

\* C1: after update_llm_config(U), every stored parameter key that is in U holds
\* U's value, every stored parameter key that is not in U holds its previous
\* value, and no key of U that was absent from the stored parameters was added.
C1_UpdatePostcondition ==
    [][\A t \in SeqCallers : Called(t, "update_llm_config") =>
        LET U == last_call'[t].config_updates IN
        /\ \A k \in DOMAIN llm_config' \cap KeysOf(U) : llm_config'[k] = ValueOf(U, k)
        /\ \A k \in DOMAIN llm_config' \ KeysOf(U) :
              k \in DOMAIN llm_config /\ llm_config'[k] = llm_config[k]
        /\ \A k \in KeysOf(U) \ DOMAIN llm_config : k \notin DOMAIN llm_config']_vars

\* An update of a known and an unknown key has run: the known key holds the new
\* value, the other parameters their defaults, the unknown key is absent.
C1_Witness ==
    /\ last_call[1].op = "update_llm_config"
    /\ last_call[1].config_updates = <<<<"unknown_key", "123">>, <<"temperature", "0.2">>>>
    /\ llm_config = SetItem(DefaultLlmConfig, "temperature", "0.2")

\* C2: in every reachable state the key set of the stored model parameters is
\* exactly {temperature, max_tokens, top_p, model}.
C2_KeySetFixed == DOMAIN llm_config = {"temperature", "max_tokens", "top_p", "model"}

\* An update that names an unknown key and "system_prompt" has run on parameters
\* that earlier updates had changed.
C2_Witness ==
    /\ last_call[1].op = "update_llm_config"
    /\ {"unknown_key", "system_prompt"} \subseteq KeysOf(last_call[1].config_updates)
    /\ \A k \in KnownKeys : llm_config[k] # DefaultLlmConfig[k]

\* C3: the record get_llm_config returns has exactly the keys system_prompt,
\* temperature, max_tokens, top_p and model; system_prompt is the stored prompt
\* and each parameter key is the stored value of that parameter.
C3_GetConfigContent ==
    \A t \in SeqCallers : last_call[t].op = "get_llm_config" =>
        /\ last_call[t].ret = PyDictRef
        /\ held[t] # NoObj
        /\ DOMAIN record(t) =
              {"system_prompt", "temperature", "max_tokens", "top_p", "model"}
        /\ record(t)["system_prompt"] = current_system_prompt
        /\ \A k \in {"temperature", "max_tokens", "top_p", "model"} :
              k \in DOMAIN llm_config /\ record(t)[k] = llm_config[k]

\* get_llm_config has returned after the prompt and a parameter were changed.
C3_Witness ==
    /\ last_call[1].op = "get_llm_config"
    /\ current_system_prompt = "X"
    /\ llm_config["model"] = "123"
    /\ record(1)["system_prompt"] = "X"
    /\ record(1)["model"] = "123"

\* C4: get_system_prompt, called after set_system_prompt(X) with no
\* set_system_prompt or reset_to_default in between, returns exactly X, whatever
\* update_llm_config and get_llm_config calls come in between.
C4_SetThenGet ==
    \A t \in SeqCallers :
        (last_call[t].op = "get_system_prompt" /\ last_set # <<>>) =>
            last_call[t].ret = PyStr(last_set[1])

\* get_system_prompt has returned the empty prompt that was set, and parameters
\* were updated along the way.
C4_Witness ==
    /\ last_call[1].op = "get_system_prompt"
    /\ last_set = <<"">>
    /\ last_call[1].ret = PyStr("")
    /\ llm_config # DefaultLlmConfig

\* C5: reset_to_default makes the stored prompt the default constant and leaves
\* every stored model parameter as it was (changed parameters are not restored).
C5_ResetFrame ==
    [][\A t \in SeqCallers : Called(t, "reset_to_default") =>
        /\ current_system_prompt' = DEFAULT_SYSTEM_PROMPT
        /\ llm_config' = llm_config]_vars

\* reset_to_default has run after the prompt was set, with changed parameters.
C5_Witness ==
    /\ last_call[1].op = "reset_to_default"
    /\ current_system_prompt = DEFAULT_SYSTEM_PROMPT
    /\ llm_config["temperature"] = "0.2"
    /\ llm_config["max_tokens"] = "123"

\* C6: when a caller overwrites, adds or deletes a key of a record that
\* get_llm_config returned, the stored prompt and the stored parameters are
\* unchanged, and so is the content a later get_llm_config builds from them.
C6_SnapshotIsolated ==
    [][\A t \in SeqCallers : Called(t, "caller_edit") =>
        /\ current_system_prompt' = current_system_prompt
        /\ llm_config' = llm_config
        /\ MergedConfig(current_system_prompt', llm_config')
              = MergedConfig(current_system_prompt, llm_config)]_vars

\* A caller has deleted a key of the record it holds: the record lacks the key,
\* the store still has it.
C6_Witness ==
    /\ last_call[1].op = "caller_edit"
    /\ held[1] # NoObj
    /\ "temperature" \notin DOMAIN record(1)
    /\ "temperature" \in DOMAIN llm_config

\* C7: set_system_prompt, update_llm_config and reset_to_default return True
\* for every input and from every state; update_llm_config with an empty mapping
\* or with unknown keys only leaves the prompt and the parameters unchanged.
C7_AlwaysSucceeds ==
    [][\A t \in SeqCallers :
        /\ Called(t, "set_system_prompt") => last_call'[t].ret = PyTrue
        /\ Called(t, "reset_to_default") => last_call'[t].ret = PyTrue
        /\ Called(t, "update_llm_config") =>
            /\ last_call'[t].ret = PyTrue
            /\ KeysOf(last_call'[t].config_updates) \cap KnownKeys = {} =>
                /\ current_system_prompt' = current_system_prompt
                /\ llm_config' = llm_config]_vars

\* update_llm_config({}) has returned True on a store whose prompt and
\* parameters had been changed.
C7_Witness ==
    /\ last_call[1] = Call("update_llm_config", "", <<>>, PyTrue)
    /\ current_system_prompt = "X"
    /\ llm_config # DefaultLlmConfig

\* C8: before any mutating operation get_system_prompt returns the default prompt
\* and get_llm_config returns {temperature: 0.7, max_tokens: 2048, top_p: 0.9,
\* model: "gpt-4", system_prompt: <default prompt>}.
C8_InitialValues ==
    \A t \in SeqCallers : ~mutated =>
        /\ last_call[t].op = "get_system_prompt" =>
              last_call[t].ret = PyStr(DEFAULT_SYSTEM_PROMPT)
        /\ last_call[t].op = "get_llm_config" =>
              /\ held[t] # NoObj
              /\ DOMAIN record(t) =
                    {"system_prompt", "temperature", "max_tokens", "top_p", "model"}
              /\ record(t)["temperature"] = "0.7"
              /\ record(t)["max_tokens"] = "2048"
              /\ record(t)["top_p"] = "0.9"
              /\ record(t)["model"] = "gpt-4"
              /\ record(t)["system_prompt"] = DEFAULT_SYSTEM_PROMPT

\* get_llm_config has returned before any mutating operation.
C8_Witness ==
    /\ ~mutated
    /\ last_call[1].op = "get_llm_config"
    /\ held[1] # NoObj

\* C9: update_llm_config applies its keys one at a time and takes no lock: a step
\* of the interleaved system writes at most one parameter key, so a reader or a
\* second writer can run between two writes of one update (C9_TornRead,
\* C9_MixedFinal are the states this makes reachable).
C9_OneKeyPerStep ==
    [][Cardinality({k \in DOMAIN llm_config \cup DOMAIN llm_config' :
            \/ k \notin DOMAIN llm_config
            \/ k \notin DOMAIN llm_config'
            \/ llm_config'[k] # llm_config[k]}) <= 1]_vars

\* A reader holds a record built while writer w had applied the first of its two
\* known keys: the record has w's new value for that key and the old value for
\* the other, which w is about to write.
C9_TornRead ==
    \E r \in Callers : \E w \in observed[r] :
        LET U == last_call[w].config_updates IN
        /\ pc[w] = "update_loop"
        /\ last_call[r].op = "get_llm_config"
        /\ held[r] # NoObj
        /\ \E k1, k2 \in KeysOf(U) \cap KnownKeys :
            /\ k1 # k2
            /\ k1 \notin KeysOf(items[w])
            /\ k2 \in KeysOf(items[w])
            /\ record(r)[k1] = ValueOf(U, k1)
            /\ record(r)[k1] # pre[w][k1]
            /\ record(r)[k2] = pre[w][k2]
            /\ record(r)[k2] # ValueOf(U, k2)

\* Two updates of the same two keys have both returned, and the parameters hold
\* the first caller's value for one key and the second caller's for the other:
\* the result of neither order of the two calls.
C9_MixedFinal ==
    \E a, b \in Callers :
        LET Ua == last_call[a].config_updates
            Ub == last_call[b].config_updates IN
        /\ a # b
        /\ pc[a] = "idle" /\ last_call[a].op = "update_llm_config"
        /\ pc[b] = "idle" /\ last_call[b].op = "update_llm_config"
        /\ \E k1, k2 \in KeysOf(Ua) \cap KeysOf(Ub) \cap KnownKeys :
            /\ k1 # k2
            /\ ValueOf(Ua, k1) # ValueOf(Ub, k1)
            /\ ValueOf(Ua, k2) # ValueOf(Ub, k2)
            /\ llm_config[k1] = ValueOf(Ua, k1)
            /\ llm_config[k2] = ValueOf(Ub, k2)

\* C10: update_llm_config never changes the stored prompt, also when its mapping
\* has the key "system_prompt"; set_system_prompt never changes a stored
\* parameter; get_system_prompt and get_llm_config change neither.
C10_Independent ==
    [][\A t \in SeqCallers :
        /\ Called(t, "update_llm_config") =>
              current_system_prompt' = current_system_prompt
        /\ Called(t, "set_system_prompt") => llm_config' = llm_config
        /\ (Called(t, "get_system_prompt") \/ Called(t, "get_llm_config")) =>
              /\ current_system_prompt' = current_system_prompt
              /\ llm_config' = llm_config]_vars

\* update_llm_config has run with the key "system_prompt" in its mapping while
\* the stored prompt was "X", which it still is.
C10_Witness ==
    /\ last_call[1].op = "update_llm_config"
    /\ "system_prompt" \in KeysOf(last_call[1].config_updates)
    /\ last_set = <<"X">>
    /\ current_system_prompt = "X"

====
